---------------------------- MODULE Spec2Model ----------------------------
(***************************************************************************)
(* A model of PgCryptoStore (mautrix/crypto/store/asyncpg/store.py): the   *)
(* replay-protection ledger, the device and trust store, the cross-signing *)
(* store, the one-to-one session store with its cache, and the outbound    *)
(* group session store.  Every table is a set of rows; every statement the *)
(* store sends is one atomic step; a handler with several awaits is one    *)
(* step per statement when its interleavings matter.                       *)
(***************************************************************************)
EXTENDS Integers, Sequences, FiniteSets, TLC

(***************************************************************************)
(* Bounds of the model.                                                    *)
(***************************************************************************)
NumCalls == 3          \* validate_message_index calls per behaviour
MaxKeyPuts == 4        \* put_cross_signing_key calls per behaviour
MaxOlmOps == 4         \* session store operations per behaviour
MaxOutboundOps == 3    \* outbound session store operations per behaviour
MaxSigOps == 4         \* signature store operations per behaviour
MaxFailureOps == 3     \* operations per behaviour when failures are compared

VARIABLES
    scheme,                 \* self.db.scheme
    crypto_message_index,   \* table: the replay-protection ledger
    vmi,                    \* the validate_message_index calls, by call id
    crypto_tracked_user,    \* table: the users whose device list is known
    crypto_device,          \* table: the device rows
    put,                    \* the put_devices call in progress
    rd,                     \* the device lookup in progress
    last_put,               \* per user, the devices of the last put_devices
                            \* that succeeded (history)
    crypto_cross_signing_keys, \* table: the cross-signing keys
    key_puts,               \* put_cross_signing_key calls made so far
    xs_keys,                \* what the last get_cross_signing_keys returned
    first_put,              \* per (user, usage), the key of the first
                            \* put_cross_signing_key that succeeded (history)
    latest_put,             \* per (user, usage), the key of the latest one
                            \* that succeeded (history)
    key_put_ret,            \* how the last put_cross_signing_key ended
    crypto_olm_session,     \* table: the one-to-one sessions
    olm_cache,              \* self._olm_cache
    olm_ops,                \* session store operations completed so far
    olm_ret,                \* what the last session store operation returned
    crypto_megolm_outbound_session, \* table: the outbound group sessions
    out_ops,                \* outbound session store operations completed
    out_ret,                \* what the last of them returned
    newest,                 \* per (account, room), the session of the last
                            \* add_outbound_group_session (history)
    crypto_cross_signing_signatures, \* table: the signature edges
    sig_ops,                \* signature store operations completed so far
    sig_ret,                \* what the last of them returned
    crypto_account,         \* table: the accounts
    fields,                 \* per store instance, its _sync_token,
                            \* _device_id and _account
    del,                    \* the delete call in progress
    reached                 \* per account, the token of the latest
                            \* put_next_batch whose UPDATE found the
                            \* account's row (history)

ledgerVars == <<crypto_message_index, vmi>>
deviceVars == <<crypto_tracked_user, crypto_device, put, rd, last_put>>
crossVars == <<crypto_cross_signing_keys, key_puts, xs_keys, first_put,
               latest_put, key_put_ret>>
olmVars == <<crypto_olm_session, olm_cache, olm_ops, olm_ret>>
outboundRest == <<out_ops, out_ret, newest>>
outboundVars == <<crypto_megolm_outbound_session, outboundRest>>
sigVars == <<crypto_cross_signing_signatures, sig_ops, sig_ret>>
accountVars == <<crypto_account, fields, del, reached>>
vars == <<scheme, ledgerVars, deviceVars, crossVars, olmVars, outboundVars,
          sigVars, accountVars>>

\* What the operations of one component leave alone.
exceptLedger == <<scheme, deviceVars, crossVars, olmVars, outboundVars,
                  sigVars, accountVars>>
exceptDevices == <<scheme, ledgerVars, crossVars, olmVars, outboundVars,
                   sigVars, accountVars>>
exceptCross == <<scheme, ledgerVars, deviceVars, olmVars, outboundVars,
                 sigVars, accountVars>>
exceptSessions == <<scheme, ledgerVars, deviceVars, crossVars, sigVars>>
exceptOlm == <<exceptSessions, accountVars>>
exceptSig == <<scheme, ledgerVars, deviceVars, crossVars, olmVars,
               outboundVars, accountVars>>

(***************************************************************************)
(* The backend families (Scheme of mautrix.util.async_db).                 *)
(***************************************************************************)
Schemes == {"POSTGRES", "COCKROACH", "SQLITE"}

AtomicScheme == scheme \in {"POSTGRES", "COCKROACH"}

(***************************************************************************)
(* Device and trust store: put_devices, get_devices, get_device and        *)
(* find_device_by_key                                                      *)
(***************************************************************************)
UserIDs == {"@a", "@b"}
DeviceIDs == {"d1", "d2"}

\* The DeviceIdentity attributes put_devices stores for a device.
Identities ==
    { [identity_key |-> "ik1", signing_key |-> "sk1", trust |-> "verified",
       deleted |-> FALSE, name |-> "phone"],
      [identity_key |-> "ik2", signing_key |-> "sk2", trust |-> "unverified",
       deleted |-> TRUE, name |-> "web"] }

IdentityKeys == {i.identity_key : i \in Identities}

\* devices: dict[DeviceID, DeviceIdentity].  The inputs are the mappings in
\* which "d1" has either identity and "d2", when present, has the first: they
\* hold a changed device, a removed one, an added one and two devices with
\* one identity key.
DeviceMaps ==
    { m \in UNION {[S -> Identities] : S \in SUBSET DeviceIDs} :
        "d2" \in DOMAIN m => m["d2"].identity_key = "ik1" }

EmptyDevices == CHOOSE m \in DeviceMaps : DOMAIN m = {}

\* data = [(user_id, device_id, identity.identity_key, ...) for ... in
\* devices.items()]
DeviceRecords(user_id, devices) ==
    { [user_id |-> user_id, device_id |-> d,
       identity_key |-> devices[d].identity_key,
       signing_key |-> devices[d].signing_key,
       trust |-> devices[d].trust,
       deleted |-> devices[d].deleted,
       name |-> devices[d].name] : d \in DOMAIN devices }

\* DeviceIdentity(user_id=..., device_id=row["device_id"], ...) of a row.
RowIdentity(row) ==
    [identity_key |-> row.identity_key, signing_key |-> row.signing_key,
     trust |-> row.trust, deleted |-> row.deleted, name |-> row.name]

\* result[row["device_id"]] = DeviceIdentity(...) for row in rows
DevicesOfRows(rows) ==
    [d \in {r.device_id : r \in rows} |->
        RowIdentity(CHOOSE r \in rows : r.device_id = d)]

\* The statements of put_devices, as functions of the two tables.
\* INSERT INTO crypto_tracked_user (user_id) VALUES ($1)
\*   ON CONFLICT (user_id) DO NOTHING
StmtTrack(db, stmt) ==
    [db EXCEPT !.tracked = db.tracked \cup {stmt.user_id}]

\* DELETE FROM crypto_device WHERE user_id=$1
StmtDeleteNothing(db, stmt) == db

StmtDelete(db, stmt) ==
    [db EXCEPT !.device = {r \in db.device : r.user_id # stmt.user_id}]

\* conn.copy_records_to_table("crypto_device", records=data, columns=columns)
CopyRecordsToTable(table, records) == table \cup records

\* conn.executemany("INSERT INTO crypto_device (...) VALUES (...)", data)
ExecuteMany(table, records) == table \cup records

StmtInsert(db, stmt) ==
    [db EXCEPT !.device =
        IF stmt.scheme = "POSTGRES"
        THEN CopyRecordsToTable(db.device, stmt.records)
        ELSE ExecuteMany(db.device, stmt.records)]

ApplyStmt(db, stmt) ==
    CASE stmt.kind = "track" -> StmtTrack(db, stmt)
      [] stmt.kind = "delete" -> StmtDelete(db, stmt)
      [] stmt.kind = "insert" -> StmtInsert(db, stmt)

RECURSIVE ApplyAll(_, _)
ApplyAll(db, stmts) ==
    IF stmts = <<>> THEN db
    ELSE ApplyAll(ApplyStmt(db, Head(stmts)), Tail(stmts))

\* The transaction scope of the database utility: the statements made inside
\* it take effect together when the scope is left normally, and not at all
\* when it is left by an exception or a cancellation.
TxCommit(db, stmts) == ApplyAll(db, stmts)

TxRollback(db, stmts) == db

DeviceDb == [tracked |-> crypto_tracked_user, device |-> crypto_device]

SetDeviceDb(db) ==
    /\ crypto_tracked_user' = db.tracked
    /\ crypto_device' = db.device

\* async with self.db.acquire() as conn, conn.transaction():
PutDevicesAutocommit == FALSE

PutDevicesTransactional == TRUE

IdlePut == [pc |-> "idle", user_id |-> "@a", devices |-> EmptyDevices,
            txn |-> <<>>]

IdleRead == [op |-> "none", pc |-> "idle", user_id |-> "@a",
             device_id |-> "d1", identity_key |-> "ik1",
             present |-> FALSE, devices |-> EmptyDevices]

NeverPut == [present |-> FALSE, devices |-> EmptyDevices]

DeviceStart ==
    /\ crypto_tracked_user = {}
    /\ crypto_device = {}
    /\ put = IdlePut
    /\ rd = IdleRead
    /\ last_put = [u \in UserIDs |-> NeverPut]

\* One statement of put_devices: inside the transaction it is held back until
\* the commit.
PutExec(stmt, pc) ==
    /\ IF PutDevicesTransactional
       THEN /\ put' = [put EXCEPT !.pc = pc, !.txn = Append(put.txn, stmt)]
            /\ UNCHANGED <<crypto_tracked_user, crypto_device>>
       ELSE /\ put' = [put EXCEPT !.pc = pc]
            /\ SetDeviceDb(ApplyStmt(DeviceDb, stmt))
    /\ UNCHANGED <<rd, last_put, exceptDevices>>

\* put_devices(user_id, devices) is called and enters the transaction.
PutDevicesCall ==
    /\ put.pc \in {"idle", "done", "failed"}
    /\ \E u \in UserIDs, m \in DeviceMaps :
          put' = [pc |-> "begun", user_id |-> u, devices |-> m, txn |-> <<>>]
    /\ UNCHANGED <<crypto_tracked_user, crypto_device, rd, last_put,
                   exceptDevices>>

PutDevicesTrack ==
    /\ put.pc = "begun"
    /\ PutExec([kind |-> "track", user_id |-> put.user_id], "tracked")

PutDevicesDelete ==
    /\ put.pc = "tracked"
    /\ PutExec([kind |-> "delete", user_id |-> put.user_id], "deleted")

PutDevicesInsert ==
    /\ put.pc = "deleted"
    /\ PutExec([kind |-> "insert", scheme |-> scheme,
                records |-> DeviceRecords(put.user_id, put.devices)],
               "inserted")

\* The transaction scope is left normally: commit, and the call returns.
PutDevicesCommit ==
    /\ put.pc = "inserted"
    /\ SetDeviceDb(TxCommit(DeviceDb, put.txn))
    /\ put' = [IdlePut EXCEPT !.pc = "done"]
    /\ last_put' = [last_put EXCEPT ![put.user_id] =
                       [present |-> TRUE, devices |-> put.devices]]
    /\ UNCHANGED <<rd, exceptDevices>>

\* A statement or the commit fails, or the call is cancelled at an await:
\* the transaction scope is left by the exception.
PutDevicesFail ==
    /\ put.pc \in {"begun", "tracked", "deleted", "inserted"}
    /\ SetDeviceDb(TxRollback(DeviceDb, put.txn))
    /\ put' = [IdlePut EXCEPT !.pc = "failed"]
    /\ UNCHANGED <<rd, last_put, exceptDevices>>

\* SELECT user_id FROM crypto_tracked_user WHERE user_id=$1
TrackedLookupByDevices(user_id) ==
    \E r \in crypto_device : r.user_id = user_id

TrackedLookup(user_id) == user_id \in crypto_tracked_user

\* get_devices, first statement: the tracked-user lookup; None ends the call.
GetDevicesTracked ==
    /\ rd.pc \in {"idle", "done"}
    /\ \E u \in UserIDs :
          rd' = [IdleRead EXCEPT
                   !.op = "get_devices", !.user_id = u,
                   !.pc = IF TrackedLookup(u) THEN "tracked" ELSE "done"]
    /\ UNCHANGED <<crypto_tracked_user, crypto_device, put, last_put,
                   exceptDevices>>

\* get_devices, second statement: the device rows, built into the mapping.
GetDevicesFetch ==
    /\ rd.op = "get_devices" /\ rd.pc = "tracked"
    /\ rd' = [rd EXCEPT
                !.pc = "done", !.present = TRUE,
                !.devices = DevicesOfRows(
                    {r \in crypto_device : r.user_id = rd.user_id})]
    /\ UNCHANGED <<crypto_tracked_user, crypto_device, put, last_put,
                   exceptDevices>>

\* get_device(user_id, device_id): one fetchrow.
GetDevice ==
    /\ rd.pc \in {"idle", "done"}
    /\ \E u \in UserIDs, d \in DeviceIDs :
          LET rows == {r \in crypto_device :
                          r.user_id = u /\ r.device_id = d}
          IN  rd' = [IdleRead EXCEPT
                       !.op = "get_device", !.pc = "done", !.user_id = u,
                       !.device_id = d, !.present = (rows # {}),
                       !.devices = DevicesOfRows(rows)]
    /\ UNCHANGED <<crypto_tracked_user, crypto_device, put, last_put,
                   exceptDevices>>

\* find_device_by_key(user_id, identity_key): one fetchrow, which gives one
\* of the rows that match.
FindDeviceByKey ==
    /\ rd.pc \in {"idle", "done"}
    /\ \E u \in UserIDs, k \in IdentityKeys :
          LET rows == {r \in crypto_device :
                          r.user_id = u /\ r.identity_key = k}
          IN  \/ /\ rows = {}
                 /\ rd' = [IdleRead EXCEPT
                             !.op = "find_device_by_key", !.pc = "done",
                             !.user_id = u, !.identity_key = k]
              \/ \E row \in rows :
                    rd' = [IdleRead EXCEPT
                             !.op = "find_device_by_key", !.pc = "done",
                             !.user_id = u, !.identity_key = k,
                             !.device_id = row.device_id, !.present = TRUE,
                             !.devices = DevicesOfRows({row})]
    /\ UNCHANGED <<crypto_tracked_user, crypto_device, put, last_put,
                   exceptDevices>>

(***************************************************************************)
(* Cross-signing store: put_cross_signing_key and get_cross_signing_keys   *)
(***************************************************************************)
\* CrossSigningUsage, by value.
Usages == {"master", "self_signing", "user_signing"}
SigningKeys == {"K1", "K2"}

\* INSERT INTO crypto_cross_signing_keys (user_id, usage, key, first_seen_key)
\* VALUES ($1, $2, $3, $4)   -- with (user_id, usage.value, key, key)
\* ON CONFLICT (user_id, usage) DO UPDATE SET key=excluded.key
SameUsageRows(table, user_id, usage) ==
    {r \in table : r.user_id = user_id /\ r.usage = usage}

UpsertCrossSigningKeyBoth(table, user_id, usage, key) ==
    (table \ SameUsageRows(table, user_id, usage))
        \cup {[user_id |-> user_id, usage |-> usage, key |-> key,
               first_seen_key |-> key]}

UpsertCrossSigningKey(table, user_id, usage, key) ==
    IF SameUsageRows(table, user_id, usage) = {}
    THEN table \cup {[user_id |-> user_id, usage |-> usage, key |-> key,
                      first_seen_key |-> key]}
    ELSE (table \ SameUsageRows(table, user_id, usage))
            \cup {[r EXCEPT !.key = key] :
                     r \in SameUsageRows(table, user_id, usage)}

\* {CrossSigningUsage(row["usage"]): TOFUSigningKey(key=..., first=...)
\*  for row in rows}
TOFUKeysOfRows(rows) ==
    [u \in {r.usage : r \in rows} |->
        LET row == CHOOSE r \in rows : r.usage = u
        IN  [key |-> row.key, first |-> row.first_seen_key]]

NoKeys == TOFUKeysOfRows({})

\* try: await self.db.execute(...) except Exception: self.log.exception(...)
PutCrossSigningKeyCatches == TRUE

CrossStart ==
    /\ crypto_cross_signing_keys = {}
    /\ key_puts = 0
    /\ xs_keys = [user_id |-> "@a", keys |-> NoKeys]
    /\ first_put = [u \in UserIDs, g \in Usages |-> "none"]
    /\ latest_put = [u \in UserIDs, g \in Usages |-> "none"]
    /\ key_put_ret = [failed |-> FALSE, raised |-> FALSE]

\* put_cross_signing_key(user_id, usage, key), the statement succeeding.
PutCrossSigningKey ==
    /\ key_puts < MaxKeyPuts
    /\ key_puts' = key_puts + 1
    /\ \E u \in UserIDs, g \in Usages, k \in SigningKeys :
          /\ crypto_cross_signing_keys' =
                 UpsertCrossSigningKey(crypto_cross_signing_keys, u, g, k)
          /\ first_put' = [first_put EXCEPT ![u, g] =
                              IF @ = "none" THEN k ELSE @]
          /\ latest_put' = [latest_put EXCEPT ![u, g] = k]
    /\ key_put_ret' = [failed |-> FALSE, raised |-> FALSE]
    /\ UNCHANGED <<xs_keys, exceptCross>>

\* put_cross_signing_key, the statement failing: the exception is logged and
\* the call returns.
PutCrossSigningKeyFails ==
    /\ key_puts < MaxKeyPuts
    /\ key_puts' = key_puts + 1
    /\ key_put_ret' = [failed |-> TRUE, raised |-> ~PutCrossSigningKeyCatches]
    /\ UNCHANGED <<crypto_cross_signing_keys, xs_keys, first_put, latest_put,
                   exceptCross>>

\* get_cross_signing_keys(user_id)
GetCrossSigningKeys ==
    /\ \E u \in UserIDs :
          xs_keys' =
              [user_id |-> u,
               keys |-> TOFUKeysOfRows(
                   {r \in crypto_cross_signing_keys : r.user_id = u})]
    /\ UNCHANGED <<crypto_cross_signing_keys, key_puts, first_put,
                   latest_put, key_put_ret, exceptCross>>

(***************************************************************************)
(* Signature store: put_signature, is_key_signed_by and                    *)
(* drop_signatures_by_key                                                  *)
(***************************************************************************)
\* CrossSigner values, (user_id, key): two keys of one user and one key
\* that two users have.
CrossSigners == {<<"@a", "K1">>, <<"@a", "K2">>, <<"@b", "K1">>}
SignedTargets == {<<"@a", "K1">>, <<"@b", "K1">>}
Signatures == {"sig1", "sig2"}

\* WHERE signed_user_id=$1 AND signed_key=$2 AND signer_user_id=$3
\*   AND signer_key=$4, and the ON CONFLICT target of put_signature
SameEdge(r, target, signer) ==
    /\ r.signed_user_id = target[1] /\ r.signed_key = target[2]
    /\ r.signer_user_id = signer[1] /\ r.signer_key = signer[2]

\* WHERE signer_user_id=$1 AND signer_key=$2
SignedByUser(r, signer) == r.signer_user_id = signer[1]

SignedBy(r, signer) ==
    r.signer_user_id = signer[1] /\ r.signer_key = signer[2]

\* INSERT INTO crypto_cross_signing_signatures (...) VALUES ($1, ..., $5)
\* ON CONFLICT (signed_user_id, signed_key, signer_user_id, signer_key)
\*   DO UPDATE SET signature=excluded.signature
UpsertSignature(table, target, signer, signature) ==
    {r \in table : ~SameEdge(r, target, signer)}
        \cup {[signed_user_id |-> target[1], signed_key |-> target[2],
               signer_user_id |-> signer[1], signer_key |-> signer[2],
               signature |-> signature]}

\* SELECT EXISTS(SELECT 1 FROM crypto_cross_signing_signatures WHERE ...)
SignatureExists(table, target, signer) ==
    \E r \in table : SameEdge(r, target, signer)

\* DELETE FROM crypto_cross_signing_signatures
\*   WHERE signer_user_id=$1 AND signer_key=$2
DeleteSignaturesBy(table, signer) == {r \in table : ~SignedBy(r, signer)}

\* Text is a sequence of characters.
DigitChars == <<"0", "1", "2", "3", "4", "5", "6", "7", "8", "9">>

\* The decimal numeral of a natural number, as the backend writes it.
RECURSIVE Numeral(_)
Numeral(n) ==
    IF n < 10 THEN <<DigitChars[n + 1]>>
    ELSE Numeral(n \div 10) \o <<DigitChars[(n % 10) + 1]>>

DeletePrefix == <<"D", "E", "L", "E", "T", "E", " ">>

\* What self.db.execute returns for a DELETE that removed n rows: the
\* command tag on asyncpg, a Cursor on aiosqlite.
ExecuteResponse(n) ==
    IF scheme = "SQLITE" THEN [type |-> "Cursor", rowcount |-> n]
    ELSE [type |-> "str", text |-> DeletePrefix \o Numeral(n)]

\* Responses of another form: a text that is no DELETE tag, a DELETE tag
\* without a number, no value.
OtherResponses ==
    { [type |-> "str", text |-> <<"O", "K">>],
      [type |-> "str", text |-> DeletePrefix],
      [type |-> "NoneType"] }

\* res.startswith("DELETE ")
StartsWith(text, prefix) ==
    /\ Len(text) >= Len(prefix)
    /\ SubSeq(text, 1, Len(prefix)) = prefix

\* intPart.isdecimal()
IsDecimal(text) ==
    /\ text # <<>>
    /\ \A i \in DOMAIN text : \E d \in DOMAIN DigitChars : DigitChars[d] = text[i]

\* int(intPart)
RECURSIVE ParseInt(_)
ParseInt(text) ==
    IF text = <<>> THEN 0
    ELSE LET last == text[Len(text)]
             d == CHOOSE k \in DOMAIN DigitChars : DigitChars[k] = last
         IN  10 * ParseInt(SubSeq(text, 1, Len(text) - 1)) + (d - 1)

\* The return value of drop_signatures_by_key for a response of the backend.
DropResultOrZero(res) ==
    IF res.type = "Cursor" THEN res.rowcount
    ELSE IF /\ res.type = "str"
            /\ StartsWith(res.text, DeletePrefix)
            /\ IsDecimal(SubSeq(res.text, Len(DeletePrefix) + 1, Len(res.text)))
         THEN ParseInt(SubSeq(res.text, Len(DeletePrefix) + 1, Len(res.text)))
         ELSE 0

DropResult(res) ==
    IF res.type = "Cursor" THEN res.rowcount
    ELSE IF /\ res.type = "str"
            /\ StartsWith(res.text, DeletePrefix)
            /\ IsDecimal(SubSeq(res.text, Len(DeletePrefix) + 1, Len(res.text)))
         THEN ParseInt(SubSeq(res.text, Len(DeletePrefix) + 1, Len(res.text)))
         ELSE -1

\* try: await self.db.execute(...) except Exception: self.log.exception(...)
PutSignaturePropagates == FALSE

PutSignatureCatches == TRUE

NoSigReturn ==
    [op |-> "none", target |-> <<"@a", "K1">>, signer |-> <<"@a", "K1">>,
     outcome |-> "none", raised |-> FALSE, signed |-> FALSE, count |-> 0]

SigStart ==
    /\ crypto_cross_signing_signatures = {}
    /\ sig_ops = 0
    /\ sig_ret = NoSigReturn

\* One more signature store operation completes.
SigOp ==
    /\ sig_ops < MaxSigOps
    /\ sig_ops' = sig_ops + 1

\* put_signature(target, signer, signature): the statement succeeds, or it
\* fails and the exception is logged.
PutSignature ==
    /\ SigOp
    /\ \E target \in SignedTargets, signer \in CrossSigners,
          signature \in Signatures, backend_ok \in BOOLEAN :
          /\ crypto_cross_signing_signatures' =
                IF backend_ok
                THEN UpsertSignature(crypto_cross_signing_signatures,
                                     target, signer, signature)
                ELSE crypto_cross_signing_signatures
          /\ sig_ret' = [NoSigReturn EXCEPT
                           !.op = "put_signature", !.target = target,
                           !.signer = signer,
                           !.outcome = IF backend_ok THEN "stored"
                                       ELSE "failed",
                           !.raised = ~backend_ok /\ ~PutSignatureCatches]
    /\ UNCHANGED exceptSig

\* is_key_signed_by(target, signer): one fetchval; a failure is the caller's.
IsKeySignedBy ==
    /\ SigOp
    /\ \E target \in SignedTargets, signer \in CrossSigners,
          backend_ok \in BOOLEAN :
          sig_ret' = [NoSigReturn EXCEPT
                        !.op = "is_key_signed_by", !.target = target,
                        !.signer = signer,
                        !.outcome = IF backend_ok THEN "fetched"
                                    ELSE "failed",
                        !.raised = ~backend_ok,
                        !.signed = /\ backend_ok
                                   /\ SignatureExists(
                                          crypto_cross_signing_signatures,
                                          target, signer)]
    /\ UNCHANGED <<crypto_cross_signing_signatures, exceptSig>>

\* drop_signatures_by_key(signer): the DELETE fails and -1 is returned, or it
\* removes the rows and the return value is read from the response.
DropSignaturesByKey ==
    /\ SigOp
    /\ \E signer \in CrossSigners :
          \/ /\ UNCHANGED crypto_cross_signing_signatures
             /\ sig_ret' = [NoSigReturn EXCEPT
                              !.op = "drop_signatures_by_key",
                              !.signer = signer, !.outcome = "failed",
                              !.count = -1]
          \/ LET table == DeleteSignaturesBy(crypto_cross_signing_signatures,
                                             signer)
                 n == Cardinality(crypto_cross_signing_signatures)
                          - Cardinality(table)
             IN  /\ crypto_cross_signing_signatures' = table
                 /\ \E res \in {ExecuteResponse(n)} \cup OtherResponses :
                       sig_ret' = [NoSigReturn EXCEPT
                                     !.op = "drop_signatures_by_key",
                                     !.signer = signer,
                                     !.outcome =
                                         IF res = ExecuteResponse(n)
                                         THEN "counted" ELSE "no count",
                                     !.count = DropResult(res)]
    /\ UNCHANGED exceptSig

(***************************************************************************)
(* One-to-one session store and its cache                                  *)
(***************************************************************************)
\* self.account_id and self.pickle_key of the store instance.
AccountID == "acc1"
PickleKey == "pk"

OlmSessionIDs == {"o1", "o2"}

\* The Session objects the engine passes: an id, the ratchet state, and the
\* three times.  The inputs are sessions that have decrypted as many
\* messages as their ratchet has advanced.
Sessions ==
    { s \in [id : OlmSessionIDs, state : 0..1, creation_time : {0},
             last_encrypted : {0}, last_decrypted : 0..1] :
        s.last_decrypted = s.state }

\* session.pickle(self.pickle_key)
Pickle(session, passphrase) ==
    [passphrase |-> passphrase, id |-> session.id, state |-> session.state]

\* Session.from_pickle(row["session"], passphrase=self.pickle_key,
\*     creation_time=..., last_encrypted=..., last_decrypted=...)
FromPickle(row, passphrase) ==
    [id |-> row.session.id, state |-> row.session.state,
     creation_time |-> row.created_at,
     last_encrypted |-> row.last_encrypted,
     last_decrypted |-> row.last_decrypted]

\* self._olm_cache[key] of the defaultdict: a key not seen before gets an
\* empty dict.
CacheTouch(cache, key) ==
    IF key \in DOMAIN cache THEN cache ELSE cache @@ (key :> <<>>)

\* self._olm_cache[key][SessionID(session.id)] = session
CacheStore(cache, key, session) ==
    LET c == CacheTouch(cache, key)
    IN  [c EXCEPT ![key] =
            [i \in DOMAIN c[key] \cup {session.id} |->
                IF i = session.id THEN session ELSE c[key][i]]]

\* WHERE sender_key=$1 AND account_id=$2
OlmRowsOf(table, key) ==
    {r \in table : r.sender_key = key /\ r.account_id = AccountID}

\* ORDER BY last_decrypted DESC: the orders the backend may return rows in.
OrderedByLastDecryptedAsc(rows) ==
    { q \in [1..Cardinality(rows) -> rows] :
        /\ \A i, j \in DOMAIN q : i # j => q[i] # q[j]
        /\ \A i, j \in DOMAIN q :
              i < j => q[i].last_decrypted <= q[j].last_decrypted }

OrderedByLastDecrypted(rows) ==
    { q \in [1..Cardinality(rows) -> rows] :
        /\ \A i, j \in DOMAIN q : i # j => q[i] # q[j]
        /\ \A i, j \in DOMAIN q :
              i < j => q[i].last_decrypted >= q[j].last_decrypted }

\* LIMIT 1
Limit1(rows) == IF rows = <<>> THEN <<>> ELSE <<Head(rows)>>

\* The loop of get_sessions over the rows: the cached object when the cache
\* holds the row's session_id, else the unpickled row, which is cached.
RECURSIVE LoadSessions(_, _, _)
LoadSessions(cache, key, rows) ==
    IF rows = <<>> THEN [cache |-> cache, sessions |-> <<>>]
    ELSE LET row == Head(rows)
             c == CacheTouch(cache, key)
             hit == row.session_id \in DOMAIN c[key]
             sess == IF hit THEN c[key][row.session_id]
                     ELSE FromPickle(row, PickleKey)
             rest == LoadSessions(
                         IF hit THEN c ELSE CacheStore(c, key, sess),
                         key, Tail(rows))
         IN  [cache |-> rest.cache, sessions |-> <<sess>> \o rest.sessions]

\* INSERT INTO crypto_olm_session (...) VALUES ($1, ..., $7)
OlmRow(key, session) ==
    [session_id |-> session.id, sender_key |-> key,
     session |-> Pickle(session, PickleKey),
     created_at |-> session.creation_time,
     last_encrypted |-> session.last_encrypted,
     last_decrypted |-> session.last_decrypted,
     account_id |-> AccountID]

\* The key of the table: a second row for it is a backend error.
OlmKeyTaken(table, row) ==
    \E r \in table :
        /\ r.account_id = row.account_id
        /\ r.sender_key = row.sender_key
        /\ r.session_id = row.session_id

\* UPDATE crypto_olm_session SET session=$1, last_encrypted=$2,
\*   last_decrypted=$3 WHERE session_id=$4 AND account_id=$5
UpdateOlmRows(table, session) ==
    { IF r.session_id = session.id /\ r.account_id = AccountID
      THEN [r EXCEPT !.session = Pickle(session, PickleKey),
                     !.last_encrypted = session.last_encrypted,
                     !.last_decrypted = session.last_decrypted]
      ELSE r : r \in table }

\* DELETE FROM {table} WHERE account_id=$1
DeleteAccountRows(table) == {r \in table : r.account_id # AccountID}

NoReturn == [op |-> "none", key |-> "ik1", found |-> FALSE, sessions |-> <<>>]

OlmStart ==
    /\ crypto_olm_session = {}
    /\ olm_cache = <<>>
    /\ olm_ops = 0
    /\ olm_ret = NoReturn

\* One more session store operation completes.
OlmOp ==
    /\ olm_ops < MaxOlmOps
    /\ olm_ops' = olm_ops + 1

\* self._sync_token = None; self._device_id = DeviceID("");
\* self._account = None (the account of id "None")
NewFields ==
    [sync_token |-> "None", device_id |-> "",
     account |-> [id |-> "None", shared |-> FALSE]]

\* PgCryptoStore(account_id, pickle_key, db) is constructed again over the
\* same database, as when the process restarts: the cache starts empty and
\* the store holds no sync token, device id or account.
Construct ==
    /\ OlmOp
    /\ olm_cache' = <<>>
    /\ fields' = [fields EXCEPT ![AccountID] = NewFields]
    /\ olm_ret' = [NoReturn EXCEPT !.op = "construct"]
    /\ UNCHANGED <<crypto_olm_session, outboundVars, crypto_account, del,
                   reached, exceptSessions>>

\* has_session(key)
HasSession ==
    /\ OlmOp
    /\ \E key \in IdentityKeys :
          LET c == CacheTouch(olm_cache, key)
          IN  /\ olm_cache' = c
              /\ olm_ret' =
                    [NoReturn EXCEPT
                       !.op = "has_session", !.key = key,
                       !.found = \/ DOMAIN c[key] # {}
                                 \/ OlmRowsOf(crypto_olm_session, key) # {}]
    /\ UNCHANGED <<crypto_olm_session, outboundVars, exceptOlm>>

\* get_sessions(key)
GetSessions ==
    /\ OlmOp
    /\ \E key \in IdentityKeys :
       \E rows \in OrderedByLastDecrypted(OlmRowsOf(crypto_olm_session, key)) :
          LET res == LoadSessions(olm_cache, key, rows)
          IN  /\ olm_cache' = res.cache
              /\ olm_ret' = [NoReturn EXCEPT
                               !.op = "get_sessions", !.key = key,
                               !.found = (rows # <<>>),
                               !.sessions = res.sessions]
    /\ UNCHANGED <<crypto_olm_session, outboundVars, exceptOlm>>

\* get_latest_session(key): the same query with LIMIT 1.
GetLatestSession ==
    /\ OlmOp
    /\ \E key \in IdentityKeys :
       \E rows \in OrderedByLastDecrypted(OlmRowsOf(crypto_olm_session, key)) :
          LET res == LoadSessions(olm_cache, key, Limit1(rows))
          IN  /\ olm_cache' = res.cache
              /\ olm_ret' = [NoReturn EXCEPT
                               !.op = "get_latest_session", !.key = key,
                               !.found = (rows # <<>>),
                               !.sessions = res.sessions]
    /\ UNCHANGED <<crypto_olm_session, outboundVars, exceptOlm>>

\* add_session(key, session): the cache is written, then the row inserted.
\* The insert raises when the key is taken, and may raise on any backend
\* failure.
AddSession ==
    /\ OlmOp
    /\ \E key \in IdentityKeys, session \in Sessions, backend_ok \in BOOLEAN :
          LET row == OlmRow(key, session)
              ok == backend_ok /\ ~OlmKeyTaken(crypto_olm_session, row)
          IN  /\ olm_cache' = CacheStore(olm_cache, key, session)
              /\ crypto_olm_session' =
                    IF ok THEN crypto_olm_session \cup {row}
                    ELSE crypto_olm_session
              /\ olm_ret' = [NoReturn EXCEPT
                               !.op = IF ok THEN "add_session"
                                      ELSE "add_session raised",
                               !.key = key]
    /\ UNCHANGED <<outboundVars, exceptOlm>>

\* update_session(key, session).  The session is either the object the cache
\* holds under its id, which the engine has changed in place (cached), or
\* another object.  The comparison with the cache only logs.
UpdateSession ==
    /\ OlmOp
    /\ \E key \in IdentityKeys, session \in Sessions, cached \in BOOLEAN,
          backend_ok \in BOOLEAN :
          LET c == CacheTouch(olm_cache, key)
          IN  /\ cached => /\ session.id \in DOMAIN c[key]
                           /\ c[key][session.id].creation_time =
                                  session.creation_time
              /\ olm_cache' = IF cached THEN CacheStore(c, key, session) ELSE c
              /\ crypto_olm_session' =
                    IF backend_ok
                    THEN UpdateOlmRows(crypto_olm_session, session)
                    ELSE crypto_olm_session
              /\ olm_ret' = [NoReturn EXCEPT
                               !.op = IF backend_ok THEN "update_session"
                                      ELSE "update_session raised",
                               !.key = key, !.sessions = <<session>>]
    /\ UNCHANGED <<outboundVars, exceptOlm>>

\* delete(): one transaction over crypto_account, crypto_olm_session and
\* crypto_megolm_outbound_session; it commits, or fails and changes nothing.
\* The cache is not touched.
Delete ==
    /\ \E backend_ok \in BOOLEAN :
          /\ crypto_account' =
                IF backend_ok THEN DeleteAccountRows(crypto_account)
                ELSE crypto_account
          /\ crypto_olm_session' =
                IF backend_ok THEN DeleteAccountRows(crypto_olm_session)
                ELSE crypto_olm_session
          /\ crypto_megolm_outbound_session' =
                IF backend_ok
                THEN DeleteAccountRows(crypto_megolm_outbound_session)
                ELSE crypto_megolm_outbound_session
    /\ UNCHANGED <<olm_cache, olm_ops, olm_ret, outboundRest, fields, del,
                   reached,
                   exceptSessions>>

(***************************************************************************)
(* Outbound group session store                                            *)
(***************************************************************************)
\* The account_id of this store instance and of a second instance on the
\* same database.
AccountIDs == {AccountID, "acc2"}
RoomIDs == {"!r1", "!r2"}
GroupSessionIDs == {"g1", "g2"}

\* timedelta values, as (days, seconds).
Week == [days |-> 7, seconds |-> 0]
Hour == [days |-> 0, seconds |-> 3600]

\* max_age.total_seconds()
SecondsField(td) == td.seconds

TotalSeconds(td) == td.days * 86400 + td.seconds

\* timedelta(seconds=max_age)
TimedeltaOfSeconds(n) == [days |-> n \div 86400, seconds |-> n % 86400]

\* The OutboundGroupSession objects the engine passes: a fresh session with
\* the default rotation period, or a shared one that has sent a message.
OutboundSessions ==
    { [room_id |-> r, id |-> g, state |-> n, shared |-> (n = 1),
       max_messages |-> 100, message_count |-> n,
       max_age |-> IF n = 0 THEN Week ELSE Hour,
       creation_time |-> n, use_time |-> n] :
      r \in RoomIDs, g \in GroupSessionIDs, n \in 0..1 }

\* The row add_outbound_group_session writes for a session.
OutboundRow(account_id, session) ==
    [room_id |-> session.room_id, session_id |-> session.id,
     session |-> Pickle(session, PickleKey), shared |-> session.shared,
     max_messages |-> session.max_messages,
     message_count |-> session.message_count,
     max_age |-> IF scheme = "SQLITE" THEN TotalSeconds(session.max_age)
                 ELSE session.max_age,
     created_at |-> session.creation_time, last_used |-> session.use_time,
     account_id |-> account_id]

\* WHERE room_id=$1 AND account_id=$2
OutboundRowsOf(table, account_id, room_id) ==
    {r \in table : r.room_id = room_id /\ r.account_id = account_id}

\* INSERT INTO crypto_megolm_outbound_session (...) VALUES (...)
\* ON CONFLICT (account_id, room_id) DO UPDATE SET session_id=$2, session=$3,
\*   shared=$4, max_messages=$5, message_count=$6, max_age=$7, created_at=$8,
\*   last_used=$9
UpsertOutboundBySessionID(table, row) ==
    {r \in table : ~( /\ r.account_id = row.account_id
                      /\ r.room_id = row.room_id
                      /\ r.session_id = row.session_id )} \cup {row}

UpsertOutbound(table, row) ==
    (table \ OutboundRowsOf(table, row.account_id, row.room_id)) \cup {row}

\* UPDATE crypto_megolm_outbound_session SET session=$1, message_count=$2,
\*   last_used=$3 WHERE room_id=$4 AND session_id=$5 AND account_id=$6
UpdateOutboundByRoom(table, account_id, session) ==
    { IF r.room_id = session.room_id /\ r.account_id = account_id
      THEN [r EXCEPT !.session = Pickle(session, PickleKey),
                     !.message_count = session.message_count,
                     !.last_used = session.use_time]
      ELSE r : r \in table }

UpdateOutboundShared(table, account_id, session) ==
    { IF /\ r.room_id = session.room_id
         /\ r.session_id = session.id
         /\ r.account_id = account_id
      THEN [r EXCEPT !.session = Pickle(session, PickleKey),
                     !.shared = session.shared,
                     !.message_count = session.message_count,
                     !.last_used = session.use_time]
      ELSE r : r \in table }

UpdateOutbound(table, account_id, session) ==
    { IF /\ r.room_id = session.room_id
         /\ r.session_id = session.id
         /\ r.account_id = account_id
      THEN [r EXCEPT !.session = Pickle(session, PickleKey),
                     !.message_count = session.message_count,
                     !.last_used = session.use_time]
      ELSE r : r \in table }

\* OutboundGroupSession.from_pickle(row["session"], passphrase=...,
\*     room_id=row["room_id"], shared=row["shared"], ...)
OutboundFromRow(row) ==
    [room_id |-> row.room_id, id |-> row.session.id,
     state |-> row.session.state, shared |-> row.shared,
     max_messages |-> row.max_messages,
     message_count |-> row.message_count,
     max_age |-> IF scheme = "SQLITE" THEN TimedeltaOfSeconds(row.max_age)
                 ELSE row.max_age,
     creation_time |-> row.created_at, use_time |-> row.last_used]

\* DELETE ... WHERE account_id=$1 AND room_id=ANY($2)
DeleteRoomsAny(table, account_id, rooms) ==
    {r \in table :
        ~( /\ r.account_id = account_id
           /\ \E i \in DOMAIN rooms : r.room_id = rooms[i] )}

\* params = ",".join(["?"] * len(rooms));
\* DELETE ... WHERE account_id=? AND room_id IN ({params}), with the
\* arguments (self.account_id, *rooms)
DeleteRoomsInFirst(table, placeholders, args) ==
    {r \in table :
        ~( /\ r.account_id = args[1]
           /\ placeholders > 0
           /\ r.room_id = args[2] )}

DeleteRoomsIn(table, placeholders, args) ==
    {r \in table :
        ~( /\ r.account_id = args[1]
           /\ \E i \in 1..placeholders : r.room_id = args[1 + i] )}

NoOutbound ==
    [op |-> "none", account_id |-> AccountID, room_id |-> "!r1",
     found |-> FALSE, rooms |-> <<>>,
     session |-> CHOOSE x \in OutboundSessions : TRUE]

NeverAdded == [added |-> FALSE, session |-> NoOutbound.session]

OutboundStart ==
    /\ crypto_megolm_outbound_session = {}
    /\ out_ops = 0
    /\ out_ret = NoOutbound
    /\ newest = [a \in AccountIDs, r \in RoomIDs |-> NeverAdded]

\* One more outbound session store operation completes.
OutboundOp ==
    /\ out_ops < MaxOutboundOps
    /\ out_ops' = out_ops + 1

\* add_outbound_group_session(session), by the store of an account.
AddOutboundGroupSession ==
    /\ OutboundOp
    /\ \E a \in AccountIDs, session \in OutboundSessions :
          /\ crypto_megolm_outbound_session' =
                UpsertOutbound(crypto_megolm_outbound_session,
                               OutboundRow(a, session))
          /\ newest' = [newest EXCEPT ![a, session.room_id] =
                           [added |-> TRUE, session |-> session]]
          /\ out_ret' = [NoOutbound EXCEPT
                           !.op = "add_outbound_group_session",
                           !.account_id = a, !.room_id = session.room_id]
    /\ UNCHANGED <<crypto_olm_session, olm_cache, olm_ops, olm_ret, exceptOlm>>

\* update_outbound_group_session(session)
UpdateOutboundGroupSession ==
    /\ OutboundOp
    /\ \E a \in AccountIDs, session \in OutboundSessions :
          /\ crypto_megolm_outbound_session' =
                UpdateOutbound(crypto_megolm_outbound_session, a, session)
          /\ out_ret' = [NoOutbound EXCEPT
                           !.op = "update_outbound_group_session",
                           !.account_id = a, !.room_id = session.room_id,
                           !.session = session]
    /\ UNCHANGED <<newest, crypto_olm_session, olm_cache, olm_ops, olm_ret,
                   exceptOlm>>

\* get_outbound_group_session(room_id): fetchrow gives one of the rows
\* that match.
GetOutboundGroupSession ==
    /\ OutboundOp
    /\ \E a \in AccountIDs, room \in RoomIDs :
          LET rows == OutboundRowsOf(crypto_megolm_outbound_session, a, room)
          IN  \/ /\ rows = {}
                 /\ out_ret' = [NoOutbound EXCEPT
                                  !.op = "get_outbound_group_session",
                                  !.account_id = a, !.room_id = room]
              \/ \E row \in rows :
                    out_ret' = [op |-> "get_outbound_group_session",
                                account_id |-> a, room_id |-> room,
                                found |-> TRUE, rooms |-> <<>>,
                                session |-> OutboundFromRow(row)]
    /\ UNCHANGED <<crypto_megolm_outbound_session, newest, crypto_olm_session,
                   olm_cache, olm_ops, olm_ret, exceptOlm>>

\* remove_outbound_group_session(room_id)
RemoveOutboundGroupSession ==
    /\ OutboundOp
    /\ \E a \in AccountIDs, room \in RoomIDs :
          /\ crypto_megolm_outbound_session' =
                crypto_megolm_outbound_session
                    \ OutboundRowsOf(crypto_megolm_outbound_session, a, room)
          /\ out_ret' = [NoOutbound EXCEPT
                           !.op = "remove_outbound_group_session",
                           !.account_id = a, !.room_id = room]
    /\ UNCHANGED <<newest, crypto_olm_session, olm_cache, olm_ops, olm_ret,
                   exceptOlm>>

\* remove_outbound_group_sessions(rooms)
RoomLists == UNION {[1..n -> RoomIDs] : n \in 0..2}

RemoveOutboundGroupSessions ==
    /\ OutboundOp
    /\ \E a \in AccountIDs, rooms \in RoomLists :
          /\ crypto_megolm_outbound_session' =
                IF scheme \in {"POSTGRES", "COCKROACH"}
                THEN DeleteRoomsAny(crypto_megolm_outbound_session, a, rooms)
                ELSE DeleteRoomsIn(crypto_megolm_outbound_session,
                                   Len(rooms), <<a>> \o rooms)
          /\ out_ret' = [NoOutbound EXCEPT
                           !.op = "remove_outbound_group_sessions",
                           !.account_id = a, !.rooms = rooms]
    /\ UNCHANGED <<newest, crypto_olm_session, olm_cache, olm_ops, olm_ret,
                   exceptOlm>>

(***************************************************************************)
(* Account store and delete(), statement by statement                      *)
(***************************************************************************)
\* The OlmAccount objects the engine passes.
OlmAccounts == {[id |-> "A1", shared |-> FALSE], [id |-> "A1", shared |-> TRUE]}

\* account.pickle(self.pickle_key)
AccountPickle(account, passphrase) ==
    [passphrase |-> passphrase, id |-> account.id]

\* INSERT INTO crypto_account (account_id, device_id, shared, sync_token,
\*   account) VALUES ($1, $2, $3, $4, $5)
\* ON CONFLICT (account_id) DO UPDATE SET shared=$3, sync_token=$4, account=$5
UpsertAccount(table, row) ==
    IF \E r \in table : r.account_id = row.account_id
    THEN { IF r.account_id = row.account_id
           THEN [r EXCEPT !.shared = row.shared,
                          !.sync_token = row.sync_token,
                          !.account = row.account]
           ELSE r : r \in table }
    ELSE table \cup {row}

\* The three tables delete() names, in its order.
DeleteTables ==
    <<"crypto_account", "crypto_olm_session", "crypto_megolm_outbound_session">>

DeleteDb ==
    [crypto_account |-> crypto_account,
     crypto_olm_session |-> crypto_olm_session,
     crypto_megolm_outbound_session |-> crypto_megolm_outbound_session]

SetDeleteDb(db) ==
    /\ crypto_account' = db.crypto_account
    /\ crypto_olm_session' = db.crypto_olm_session
    /\ crypto_megolm_outbound_session' = db.crypto_megolm_outbound_session

\* conn.execute(f"DELETE FROM {table} WHERE account_id=$1", self.account_id)
DeleteFrom(db, table) == [db EXCEPT ![table] = DeleteAccountRows(db[table])]

RECURSIVE DeleteFromAll(_, _)
DeleteFromAll(db, tables) ==
    IF tables = <<>> THEN db
    ELSE DeleteFromAll(DeleteFrom(db, Head(tables)), Tail(tables))

\* The transaction scope of delete(), as the one of put_devices.
DeleteCommitted(db, tables) == DeleteFromAll(db, tables)

DeleteRolledBack(db, tables) == db

\* async with self.db.acquire() as conn, conn.transaction():
DeleteAutocommit == FALSE

DeleteTransactional == TRUE

IdleDelete == [pc |-> "idle", txn |-> <<>>, before |-> [crypto_account |-> {},
               crypto_olm_session |-> {},
               crypto_megolm_outbound_session |-> {}]]

AccountStart ==
    /\ crypto_account = {}
    /\ fields = [a \in AccountIDs |-> NewFields]
    /\ del = IdleDelete
    /\ reached = [a \in AccountIDs |-> "None"]

DeleteRunning == del.pc = "begun"

\* put_account(account), by the store of an account.
PutAccountOf(a, account) ==
    /\ ~DeleteRunning
    /\ fields' = [fields EXCEPT ![a].account = account]
    /\ crypto_account' =
          UpsertAccount(crypto_account,
              [account_id |-> a, device_id |-> fields[a].device_id,
               shared |-> account.shared,
               sync_token |-> IF fields[a].sync_token = "None" THEN ""
                              ELSE fields[a].sync_token,
               account |-> AccountPickle(account, PickleKey)])
    /\ UNCHANGED <<del, reached, olmVars, outboundVars, exceptSessions>>

PutAccount == \E a \in AccountIDs, account \in OlmAccounts : PutAccountOf(a, account)

\* The sync tokens the client passes.
SyncTokens == {"s1", "s2"}

\* UPDATE crypto_account SET sync_token=$1 WHERE account_id=$2
UpdateSyncToken(table, account_id, sync_token) ==
    { IF r.account_id = account_id
      THEN [r EXCEPT !.sync_token = sync_token] ELSE r : r \in table }

\* SELECT sync_token FROM crypto_account WHERE account_id=$1, by fetchval:
\* None when there is no row.
SelectSyncToken(table, account_id) ==
    IF \E r \in table : r.account_id = account_id
    THEN (CHOOSE r \in table : r.account_id = account_id).sync_token
    ELSE "None"

\* put_next_batch(next_batch), by the store of an account.  `reached'
\* remembers the token when the UPDATE found the account's row.
PutNextBatchOf(a, next_batch) ==
    /\ ~DeleteRunning
    /\ fields' = [fields EXCEPT ![a].sync_token = next_batch]
    /\ crypto_account' = UpdateSyncToken(crypto_account, a, next_batch)
    /\ reached' = IF \E r \in crypto_account : r.account_id = a
                  THEN [reached EXCEPT ![a] = next_batch]
                  ELSE reached
    /\ UNCHANGED <<del, olmVars, outboundVars, exceptSessions>>

PutNextBatch == \E a \in AccountIDs, next_batch \in SyncTokens : PutNextBatchOf(a, next_batch)

\* get_next_batch(), by the store of an account: the row is read only while
\* the store holds no token.
GetNextBatch ==
    /\ ~DeleteRunning
    /\ \E a \in AccountIDs :
          fields' = [fields EXCEPT ![a].sync_token =
                        IF fields[a].sync_token = "None"
                        THEN SelectSyncToken(crypto_account, a)
                        ELSE fields[a].sync_token]
    /\ UNCHANGED <<crypto_account, del, reached, olmVars, outboundVars,
                   exceptSessions>>

\* add_session(key, session) by the store of the other account; its cache is
\* its own.
AddSessionOfOtherAccount ==
    /\ ~DeleteRunning
    /\ \E key \in IdentityKeys, session \in Sessions :
          LET row == [OlmRow(key, session) EXCEPT !.account_id = "acc2"]
          IN  /\ ~OlmKeyTaken(crypto_olm_session, row)
              /\ crypto_olm_session' = crypto_olm_session \cup {row}
    /\ UNCHANGED <<olm_cache, olm_ops, olm_ret, outboundVars, accountVars,
                   exceptSessions>>

\* delete() is called and enters the transaction.  `before' remembers the
\* tables at that moment.
DeleteCall ==
    /\ del.pc \in {"idle", "done", "failed"}
    /\ del' = [pc |-> "begun", txn |-> <<>>, before |-> DeleteDb]
    /\ UNCHANGED <<crypto_account, fields, reached, olmVars, outboundVars,
                   exceptSessions>>

\* The next DELETE of the loop: inside the transaction it is held back until
\* the commit.
DeleteExecute ==
    /\ DeleteRunning
    /\ Len(del.txn) < Len(DeleteTables)
    /\ LET table == DeleteTables[Len(del.txn) + 1]
       IN  /\ del' = [del EXCEPT !.txn = Append(del.txn, table)]
           /\ IF DeleteTransactional
              THEN UNCHANGED <<crypto_account, crypto_olm_session,
                               crypto_megolm_outbound_session>>
              ELSE SetDeleteDb(DeleteFrom(DeleteDb, table))
    /\ UNCHANGED <<fields, reached, olm_cache, olm_ops, olm_ret, outboundRest,
                   exceptSessions>>

\* The transaction scope is left normally: commit, and delete() returns.
DeleteCommit ==
    /\ DeleteRunning
    /\ Len(del.txn) = Len(DeleteTables)
    /\ IF DeleteTransactional
       THEN SetDeleteDb(DeleteCommitted(DeleteDb, del.txn))
       ELSE UNCHANGED <<crypto_account, crypto_olm_session,
                        crypto_megolm_outbound_session>>
    /\ del' = [del EXCEPT !.pc = "done"]
    /\ UNCHANGED <<fields, reached, olm_cache, olm_ops, olm_ret, outboundRest,
                   exceptSessions>>

\* A statement or the commit fails, or the call is cancelled at an await:
\* the transaction scope is left by the exception.
DeleteFail ==
    /\ DeleteRunning
    /\ SetDeleteDb(DeleteRolledBack(DeleteDb, del.txn))
    /\ del' = [del EXCEPT !.pc = "failed"]
    /\ UNCHANGED <<fields, reached, olm_cache, olm_ops, olm_ret, outboundRest,
                   exceptSessions>>

(***************************************************************************)
(* Replay-protection ledger: validate_message_index                        *)
(***************************************************************************)
CallIds == 1..NumCalls
SenderKeys == {"abc"}
SessionIDs == {"s1"}
Indexes == {0, 1}
EventIDs == {"$e1", "$e2"}
Timestamps == {100, 200}

IndexRows ==
    [sender_key : SenderKeys, session_id : SessionIDs, index : Indexes,
     event_id : EventIDs, timestamp : Timestamps]

IdleCall ==
    [pc |-> "idle", sender_key |-> "abc", session_id |-> "s1", index |-> 0,
     event_id |-> "$e1", timestamp |-> 100, result |-> FALSE]

\* The row a call submits: VALUES ($1, $2, $3, $4, $5).
SubmittedRow(c) ==
    [sender_key |-> vmi[c].sender_key, session_id |-> vmi[c].session_id,
     index |-> vmi[c].index, event_id |-> vmi[c].event_id,
     timestamp |-> vmi[c].timestamp]

\* The key of the ledger: (sender_key, session_id, index).
SameIndexKey(r, s) ==
    /\ r.sender_key = s.sender_key
    /\ r.session_id = s.session_id
    /\ r.index = s.index

\* WHERE sender_key=$1 AND session_id=$2 AND "index"=$3
ExistingIndexRows(table, row) == {r \in table : SameIndexKey(r, row)}

\* row["event_id"] == event_id and row["timestamp"] == timestamp
RowMatchesEventOnly(row, event_id, timestamp) == row.event_id = event_id

RowMatches(row, event_id, timestamp) ==
    row.event_id = event_id /\ row.timestamp = timestamp

\* INSERT ... ON CONFLICT (sender_key, session_id, index)
\*   DO UPDATE SET sender_key=$1 RETURNING *
\* gives the table afterwards and the row returned.
UpsertReturningOverwrite(table, row) ==
    [table |-> (table \ ExistingIndexRows(table, row)) \cup {row},
     row |-> row]

UpsertReturningSubmitted(table, row) ==
    [table |-> IF ExistingIndexRows(table, row) = {}
               THEN table \cup {row} ELSE table,
     row |-> row]

UpsertReturning(table, row) ==
    IF ExistingIndexRows(table, row) = {}
    THEN [table |-> table \cup {row}, row |-> row]
    ELSE LET old == CHOOSE r \in ExistingIndexRows(table, row) : TRUE
             new == [old EXCEPT !.sender_key = row.sender_key]
         IN  [table |-> (table \ {old}) \cup {new}, row |-> new]

\* A plain INSERT into a table whose key admits any number of rows.
InsertIndexRowUnchecked(table, row) == [ok |-> TRUE, table |-> table \cup {row}]

\* Plain INSERT INTO crypto_message_index: the key the conflict target names
\* admits one row, a second one is a backend error.
InsertIndexRow(table, row) ==
    IF ExistingIndexRows(table, row) = {}
    THEN [ok |-> TRUE, table |-> table \cup {row}]
    ELSE [ok |-> FALSE, table |-> table]

\* A caller invokes validate_message_index(sender_key, session_id, event_id,
\* index, timestamp).  Call ids number the calls in the order they are made.
ValidateCall(c) ==
    /\ vmi[c].pc = "idle"
    /\ \A d \in CallIds : d < c => vmi[d].pc # "idle"
    /\ \E sk \in SenderKeys, sid \in SessionIDs, i \in Indexes,
          e \in EventIDs, ts \in Timestamps :
          vmi' = [vmi EXCEPT ![c] =
                    [pc |-> "called", sender_key |-> sk, session_id |-> sid,
                     index |-> i, event_id |-> e, timestamp |-> ts,
                     result |-> FALSE]]
    /\ UNCHANGED <<crypto_message_index, exceptLedger>>

\* The atomic path: one insert-or-update-returning statement, then the
\* comparison against the returned row.
ValidateAtomic(c) ==
    /\ vmi[c].pc = "called"
    /\ AtomicScheme
    /\ LET res == UpsertReturning(crypto_message_index, SubmittedRow(c))
       IN  /\ crypto_message_index' = res.table
           /\ vmi' = [vmi EXCEPT
                        ![c].pc = "returned",
                        ![c].result =
                            RowMatches(res.row, vmi[c].event_id, vmi[c].timestamp)]
    /\ UNCHANGED exceptLedger

\* The non-atomic path, first statement: the lookup.  A row found ends the
\* call with the comparison; none found leaves the call before its insert.
ValidateLookupSerialized(c) ==
    /\ vmi[c].pc = "called"
    /\ ~AtomicScheme
    /\ \A d \in CallIds \ {c} :
          ~(vmi[d].pc = "looked" /\ SameIndexKey(vmi[d], vmi[c]))
    /\ LET found == ExistingIndexRows(crypto_message_index, SubmittedRow(c))
       IN  IF found # {}
           THEN LET row == CHOOSE r \in found : TRUE
                IN  vmi' = [vmi EXCEPT
                              ![c].pc = "returned",
                              ![c].result =
                                  RowMatches(row, vmi[c].event_id, vmi[c].timestamp)]
           ELSE vmi' = [vmi EXCEPT ![c].pc = "looked"]
    /\ UNCHANGED <<crypto_message_index, exceptLedger>>

ValidateLookup(c) ==
    /\ vmi[c].pc = "called"
    /\ ~AtomicScheme
    /\ LET found == ExistingIndexRows(crypto_message_index, SubmittedRow(c))
       IN  IF found # {}
           THEN LET row == CHOOSE r \in found : TRUE
                IN  vmi' = [vmi EXCEPT
                              ![c].pc = "returned",
                              ![c].result =
                                  RowMatches(row, vmi[c].event_id, vmi[c].timestamp)]
           ELSE vmi' = [vmi EXCEPT ![c].pc = "looked"]
    /\ UNCHANGED <<crypto_message_index, exceptLedger>>

\* The non-atomic path, second statement: the insert, then return True.  A
\* backend error of the insert leaves the call through the exception.
ValidateInsert(c) ==
    /\ vmi[c].pc = "looked"
    /\ LET res == InsertIndexRow(crypto_message_index, SubmittedRow(c))
       IN  /\ crypto_message_index' = res.table
           /\ vmi' = [vmi EXCEPT
                        ![c].pc = IF res.ok THEN "returned" ELSE "raised",
                        ![c].result = res.ok]
    /\ UNCHANGED exceptLedger

InFlight(c) == vmi[c].pc \in {"called", "looked"}

LedgerStart ==
    /\ crypto_message_index = {}
    /\ vmi = [c \in CallIds |-> IdleCall]


(***************************************************************************)
(* The specifications: one per component of the store, each leaving the   *)
(* other components as they start.                                         *)
(***************************************************************************)
\* The state after construction, the database empty.
AllStart ==
    /\ LedgerStart
    /\ DeviceStart
    /\ CrossStart
    /\ OlmStart
    /\ OutboundStart
    /\ SigStart
    /\ AccountStart

LedgerInit ==
    /\ scheme \in Schemes
    /\ AllStart

\* Any interleaving of the calls' statements.
LedgerNext ==
    \E c \in CallIds :
        \/ ValidateCall(c)
        \/ ValidateAtomic(c)
        \/ ValidateLookup(c)
        \/ ValidateInsert(c)

SpecLedger == LedgerInit /\ [][LedgerNext]_vars

\* Non-overlapping calls: a call is made only when no other is in flight.
LedgerSeqNext ==
    \E c \in CallIds :
        \/ (ValidateCall(c) /\ \A d \in CallIds : ~InFlight(d))
        \/ ValidateAtomic(c)
        \/ ValidateLookup(c)
        \/ ValidateInsert(c)

SpecLedgerSeq == LedgerInit /\ [][LedgerSeqNext]_vars

\* put_devices tells POSTGRES from the other schemes only.
DeviceInit ==
    /\ scheme \in {"POSTGRES", "SQLITE"}
    /\ AllStart

DeviceNext ==
    \/ PutDevicesCall
    \/ PutDevicesTrack
    \/ PutDevicesDelete
    \/ PutDevicesInsert
    \/ PutDevicesCommit
    \/ PutDevicesFail
    \/ GetDevicesTracked
    \/ GetDevicesFetch
    \/ GetDevice
    \/ FindDeviceByKey

SpecDevices == DeviceInit /\ [][DeviceNext]_vars

\* The cross-signing store does not read the scheme.
CrossInit ==
    /\ scheme = "POSTGRES"
    /\ AllStart

CrossNext ==
    \/ PutCrossSigningKey
    \/ PutCrossSigningKeyFails
    \/ GetCrossSigningKeys

SpecCross == CrossInit /\ [][CrossNext]_vars

\* The session store does not read the scheme.
OlmInit ==
    /\ scheme = "POSTGRES"
    /\ AllStart

\* The operations complete one after the other.
OlmNext ==
    \/ Construct
    \/ HasSession
    \/ GetSessions
    \/ GetLatestSession
    \/ AddSession
    \/ UpdateSession
    \/ Delete

SpecOlm == OlmInit /\ [][OlmNext]_vars

OutboundInit ==
    /\ scheme \in Schemes
    /\ AllStart

\* The operations complete one after the other.
OutboundNext ==
    \/ AddOutboundGroupSession
    \/ UpdateOutboundGroupSession
    \/ GetOutboundGroupSession
    \/ RemoveOutboundGroupSession
    \/ RemoveOutboundGroupSessions
    \/ Delete

SpecOutbound == OutboundInit /\ [][OutboundNext]_vars

SigInit ==
    /\ scheme \in Schemes
    /\ AllStart

\* The operations complete one after the other.
SigNext ==
    \/ PutSignature
    \/ IsKeySignedBy
    \/ DropSignaturesByKey

SpecSig == SigInit /\ [][SigNext]_vars

\* The writes that log their failure, next to operations that do not.
FailureInit ==
    /\ scheme = "POSTGRES"
    /\ AllStart

OpsLeft == key_puts + sig_ops + olm_ops < MaxFailureOps

FailureNext ==
    \/ (OpsLeft /\ PutCrossSigningKey)
    \/ (OpsLeft /\ PutCrossSigningKeyFails)
    \/ (OpsLeft /\ PutSignature)
    \/ (OpsLeft /\ IsKeySignedBy)
    \/ (OpsLeft /\ AddSession)

SpecFailure == FailureInit /\ [][FailureNext]_vars

DeleteInit ==
    /\ scheme = "POSTGRES"
    /\ AllStart

\* The stores of two accounts fill the three tables, then the store of the
\* first account runs delete() statement by statement, any number of times.
\* The tables are filled before the first delete(), with sessions that have
\* not been used yet, for one identity key and one room.
Filling == del.pc = "idle"

FreshOlmRows ==
    \A r \in crypto_olm_session' :
        r.sender_key = "ik1" /\ r.last_decrypted = 0

FreshOutboundRows ==
    \A r \in crypto_megolm_outbound_session' :
        r.room_id = "!r1" /\ r.session_id = "g1" /\ r.message_count = 0

DeleteNext ==
    \/ (Filling /\ PutAccount /\ \A r \in crypto_account' : ~r.shared)
    \/ (Filling /\ AddSession /\ olm_ret'.op = "add_session" /\ FreshOlmRows)
    \/ (Filling /\ AddSessionOfOtherAccount /\ FreshOlmRows)
    \/ (Filling /\ AddOutboundGroupSession /\ FreshOutboundRows)
    \/ DeleteCall
    \/ DeleteExecute
    \/ DeleteCommit
    \/ DeleteFail

SpecDelete == DeleteInit /\ [][DeleteNext]_vars

\* The account row and the sync token: the stores of two accounts, the one of
\* the first account constructed again at any time.
AccountInit ==
    /\ scheme = "POSTGRES"
    /\ AllStart

AccountNext ==
    \/ Construct
    \/ PutAccount
    \/ PutNextBatch
    \/ GetNextBatch

SpecAccount == AccountInit /\ [][AccountNext]_vars

(***************************************************************************)
(* Claims about the replay-protection ledger.                              *)
(***************************************************************************)
Completed(c) == vmi[c].pc \in {"returned", "raised"}

SamePair(r, s) == r.event_id = s.event_id /\ r.timestamp = s.timestamp

\* The first call made for the key of call c (call ids are in call order).
FirstCallFor(c) ==
    CHOOSE d \in CallIds :
        /\ vmi[d].pc # "idle"
        /\ SameIndexKey(vmi[d], vmi[c])
        /\ \A e \in CallIds :
              vmi[e].pc # "idle" /\ SameIndexKey(vmi[e], vmi[c]) => d <= e

\* C1: in a sequence of non-overlapping validate_message_index calls, on
\* either backend path, every call returns (none raises); the first call for
\* a (sender_key, session_id, index) returns true, and a later call returns
\* true exactly when its (event_id, timestamp) is the pair the first call
\* submitted.
C1_FirstPairDecides ==
    \A c \in CallIds :
        Completed(c) =>
            /\ vmi[c].pc = "returned"
            /\ vmi[c].result = SamePair(vmi[c], vmi[FirstCallFor(c)])

\* C1 witness: three calls for one key have returned on the non-atomic path,
\* the second repeating the first (true), the third with another pair (false).
C1_Witness ==
    /\ ~AtomicScheme
    /\ \A c \in {1, 2, 3} : vmi[c].pc = "returned" /\ SameIndexKey(vmi[c], vmi[1])
    /\ SamePair(vmi[2], vmi[1]) /\ ~SamePair(vmi[3], vmi[1])
    /\ vmi[1].result /\ vmi[2].result /\ ~vmi[3].result

AtMostOneRecordPerKey ==
    \A r, s \in crypto_message_index : SameIndexKey(r, s) => r = s

\* C2: under any interleaving of validate_message_index calls on either
\* backend path the ledger holds at most one record per (sender_key,
\* session_id, index), and no step removes or rewrites a record that exists.
C2_WriteOnce ==
    /\ []AtMostOneRecordPerKey
    /\ [][\A r \in crypto_message_index : r \in crypto_message_index']_vars

\* C2 witness: a record exists, and both a call with the record's pair and a
\* call with another pair have completed on its key.
C2_Witness ==
    \E r \in crypto_message_index : \E c, d \in CallIds :
        /\ Completed(c) /\ Completed(d)
        /\ SameIndexKey(vmi[c], r) /\ SameIndexKey(vmi[d], r)
        /\ SamePair(vmi[c], r) /\ ~SamePair(vmi[d], r)

\* C3: on the atomic path, under any interleaving, a call that has returned
\* returned true exactly when its pair is the one the ledger record of its
\* key holds; so two calls for one key with different pairs never both
\* return true.
C3_AtomicAgreesWithRecord ==
    AtomicScheme =>
        /\ \A c \in CallIds :
              Completed(c) =>
                  /\ vmi[c].pc = "returned"
                  /\ \E r \in crypto_message_index :
                        /\ SameIndexKey(r, vmi[c])
                        /\ vmi[c].result = SamePair(r, vmi[c])
        /\ \A c, d \in CallIds :
              /\ Completed(c) /\ Completed(d)
              /\ SameIndexKey(vmi[c], vmi[d])
              /\ vmi[c].result /\ vmi[d].result
              => SamePair(vmi[c], vmi[d])

\* C3 witness: on the atomic path two overlapping calls for one key with
\* different pairs have returned, the one made later having won the record.
C3_Witness ==
    /\ AtomicScheme
    /\ vmi[1].pc = "returned" /\ vmi[2].pc = "returned"
    /\ SameIndexKey(vmi[1], vmi[2]) /\ ~SamePair(vmi[1], vmi[2])
    /\ ~vmi[1].result /\ vmi[2].result

\* C4: on the non-atomic path nothing closes the window between lookup and
\* insert: a call whose key has no record can always complete its lookup
\* with no row found, whatever other calls are in flight, and a call that
\* found no row can always go on to its insert.
C4_RaceWindowOpen ==
    ~AtomicScheme =>
        \A c \in CallIds :
            /\ ( /\ vmi[c].pc = "called"
                 /\ ExistingIndexRows(crypto_message_index, SubmittedRow(c)) = {} )
               => ENABLED (ValidateLookup(c) /\ vmi'[c].pc = "looked")
            /\ vmi[c].pc = "looked" => ENABLED ValidateInsert(c)

\* C4 witness: two calls for the same key, which has no record yet, have both
\* completed the lookup with no row found and stand before the insert.
C4_Witness ==
    /\ ~AtomicScheme
    /\ \E c, d \in CallIds :
          /\ c # d
          /\ vmi[c].pc = "looked" /\ vmi[d].pc = "looked"
          /\ SameIndexKey(vmi[c], vmi[d])
          /\ ExistingIndexRows(crypto_message_index, SubmittedRow(c)) = {}

(***************************************************************************)
(* Claims about the device and trust store.                                *)
(***************************************************************************)
UserDeviceRows(table, user_id) == {r \in table : r.user_id = user_id}

\* A step in which the device lookup rd executes a statement.
ReadStep == rd' # rd

\* C5: a get_devices that fetches the device rows returns exactly the
\* mapping of the last put_devices that succeeded for the user (same device
\* ids, same attributes, nothing left of an earlier list); and a put_devices
\* that succeeds leaves exactly its rows for its user and the rows of every
\* other user as they were.
C5_PutThenGet ==
    /\ [][ ( /\ ReadStep
             /\ rd'.op = "get_devices" /\ rd'.pc = "done" /\ rd'.present )
           => /\ last_put[rd'.user_id].present
              /\ rd'.devices = last_put[rd'.user_id].devices ]_vars
    /\ [][ (put.pc = "inserted" /\ put'.pc = "done")
           => \A u \in UserIDs :
                 UserDeviceRows(crypto_device', u) =
                     IF u = put.user_id
                     THEN DeviceRecords(u, put.devices)
                     ELSE UserDeviceRows(crypto_device, u) ]_vars

\* C5 witness: after put_devices replaced a user's device list by one in
\* which a device is gone and another has new attributes, get_devices has
\* returned the new list, and the other user still has devices.
C5_Witness ==
    /\ rd.op = "get_devices" /\ rd.pc = "done" /\ rd.present
    /\ rd.user_id = "@a"
    /\ DOMAIN rd.devices = {"d1"}
    /\ rd.devices["d1"].identity_key = "ik2"
    /\ rd.devices = last_put["@a"].devices
    /\ put.pc = "done"
    /\ DOMAIN last_put["@b"].devices = {"d1", "d2"}
    /\ UserDeviceRows(crypto_device, "@b") =
           DeviceRecords("@b", last_put["@b"].devices)

\* C6: get_devices returns absent exactly when, at its tracked-user lookup,
\* no put_devices for the user has succeeded; after a put_devices with no
\* devices it returns the empty mapping, which is not absent.
C6_AbsentIffNeverPut ==
    [][ (ReadStep /\ rd'.op = "get_devices")
        => /\ rd'.pc = "tracked" => last_put[rd'.user_id].present
           /\ rd'.pc = "done" =>
                 /\ rd'.present <=> last_put[rd'.user_id].present
                 /\ last_put[rd'.user_id] =
                        [present |-> TRUE, devices |-> EmptyDevices]
                    => rd'.present /\ rd'.devices = EmptyDevices ]_vars

\* C6 witness: get_devices has returned the empty mapping for a user whose
\* last put_devices had no devices, and is not absent.
C6_Witness ==
    /\ rd.op = "get_devices" /\ rd.pc = "done"
    /\ rd.present /\ rd.devices = EmptyDevices
    /\ last_put[rd.user_id] = [present |-> TRUE, devices |-> EmptyDevices]

\* The tables hold what the put_devices calls that succeeded left, whatever
\* a put_devices in flight has executed so far.
OnlyCompletedPutsVisible ==
    /\ crypto_tracked_user = {u \in UserIDs : last_put[u].present}
    /\ crypto_device =
           UNION {DeviceRecords(u, last_put[u].devices) : u \in UserIDs}

\* What a lookup that completes now must return, were only the put_devices
\* calls that succeeded visible.
SeesCompletedPuts(r) ==
    LET known == last_put[r.user_id].devices
    IN  CASE r.op = "get_devices" ->
                 IF r.pc = "tracked" THEN last_put[r.user_id].present
                 ELSE IF r.present THEN r.devices = known
                 ELSE ~last_put[r.user_id].present
          [] r.op = "get_device" ->
                 IF r.present
                 THEN /\ r.device_id \in DOMAIN known
                      /\ r.devices = [d \in {r.device_id} |-> known[d]]
                 ELSE r.device_id \notin DOMAIN known
          [] r.op = "find_device_by_key" ->
                 IF r.present
                 THEN \E d \in DOMAIN known :
                         /\ known[d].identity_key = r.identity_key
                         /\ r.devices = [e \in {d} |-> known[e]]
                 ELSE \A d \in DOMAIN known :
                         known[d].identity_key # r.identity_key
          [] OTHER -> TRUE

\* C7: put_devices is all-or-nothing.  In every state, also while a
\* put_devices is between its statements, the tables hold exactly what the
\* completed put_devices calls left; a put_devices that fails or is
\* cancelled at any step leaves the tracked users and the device rows as
\* they were; and every statement of get_devices, get_device and
\* find_device_by_key returns what the completed calls left, never a partly
\* replaced list.
C7_PutDevicesAllOrNothing ==
    /\ []OnlyCompletedPutsVisible
    /\ [][ put'.pc = "failed" /\ put.pc # "failed"
           => /\ crypto_tracked_user' = crypto_tracked_user
              /\ crypto_device' = crypto_device ]_vars
    /\ [][ ReadStep => SeesCompletedPuts(rd') ]_vars

\* C7 witness: a put_devices that replaces a non-empty device list has
\* executed its delete and not yet its insert, while a get_devices for the
\* same user stands between its two statements.
C7_Witness ==
    /\ put.pc = "deleted"
    /\ rd.op = "get_devices" /\ rd.pc = "tracked"
    /\ rd.user_id = put.user_id
    /\ last_put[put.user_id].devices # EmptyDevices
    /\ last_put[put.user_id].devices # put.devices

(***************************************************************************)
(* Claims about the cross-signing store.                                   *)
(***************************************************************************)
\* The stored keys are those of the first and of the latest successful
\* put_cross_signing_key.
FirstAndLatestStored ==
    \A u \in UserIDs, g \in Usages :
        LET rows == SameUsageRows(crypto_cross_signing_keys, u, g)
        IN  IF first_put[u, g] = "none"
            THEN rows = {}
            ELSE rows = {[user_id |-> u, usage |-> g,
                          key |-> latest_put[u, g],
                          first_seen_key |-> first_put[u, g]]}

\* C8: for every user and usage, after any sequence of
\* put_cross_signing_key calls (failed ones included), first_seen_key is the
\* key of the first call that succeeded and key the key of the latest one;
\* no step changes the first_seen_key of a row that exists; and
\* get_cross_signing_keys returns these two keys.
C8_FirstSeenKeyPinned ==
    /\ []FirstAndLatestStored
    /\ [][ \A r \in crypto_cross_signing_keys :
              \E q \in crypto_cross_signing_keys' :
                 /\ q.user_id = r.user_id /\ q.usage = r.usage
                 /\ q.first_seen_key = r.first_seen_key ]_vars
    /\ [][ xs_keys' # xs_keys
           => \A g \in Usages :
                 IF first_put[xs_keys'.user_id, g] = "none"
                 THEN g \notin DOMAIN xs_keys'.keys
                 ELSE /\ g \in DOMAIN xs_keys'.keys
                      /\ xs_keys'.keys[g] =
                             [key |-> latest_put[xs_keys'.user_id, g],
                              first |-> first_put[xs_keys'.user_id, g]] ]_vars

\* C8 witness: after put_cross_signing_key with K1 and then K2 for one user
\* and usage, get_cross_signing_keys has returned first K1 and key K2.
C8_Witness ==
    /\ first_put["@a", "master"] = "K1"
    /\ latest_put["@a", "master"] = "K2"
    /\ xs_keys.user_id = "@a"
    /\ "master" \in DOMAIN xs_keys.keys
    /\ xs_keys.keys["master"] = [key |-> "K2", first |-> "K1"]

(***************************************************************************)
(* Claims about the session cache.                                         *)
(***************************************************************************)
\* C9: the session cache is coherent with the database: after any sequence
\* of completed store operations, those that raised included, every session
\* the cache holds under (identity_key, session_id) has a row of this
\* account, and the row unpickles to the cached session's state and times.
C9_CacheCoherent ==
    \A key \in DOMAIN olm_cache : \A sid \in DOMAIN olm_cache[key] :
        \E row \in OlmRowsOf(crypto_olm_session, key) :
            /\ row.session_id = sid
            /\ FromPickle(row, PickleKey) = olm_cache[key][sid]

(***************************************************************************)
(* Claims about the outbound group session store.                          *)
(***************************************************************************)
AtMostOneOutboundPerRoom ==
    \A r, q \in crypto_megolm_outbound_session :
        r.account_id = q.account_id /\ r.room_id = q.room_id => r = q

AddStep == out_ret'.op = "add_outbound_group_session" /\ out_ops' # out_ops

GetStep == out_ret'.op = "get_outbound_group_session" /\ out_ops' # out_ops

\* C10: there is at most one outbound group session row per (account_id,
\* room_id) in every state; add_outbound_group_session leaves for its
\* account and room exactly the row of its session, every column replaced,
\* and the other rows as they were; and get_outbound_group_session returns
\* the session_id and the attributes of the newest session added.
C10_OneOutboundPerRoom ==
    /\ []AtMostOneOutboundPerRoom
    /\ [][ AddStep =>
           LET a == out_ret'.account_id
               room == out_ret'.room_id
           IN  /\ OutboundRowsOf(crypto_megolm_outbound_session', a, room) =
                      {OutboundRow(a, newest'[a, room].session)}
               /\ crypto_megolm_outbound_session'
                      \ OutboundRowsOf(crypto_megolm_outbound_session', a, room)
                  = crypto_megolm_outbound_session
                      \ OutboundRowsOf(crypto_megolm_outbound_session, a, room)
         ]_vars
    /\ [][ (GetStep /\ out_ret'.found) =>
           LET last == newest[out_ret'.account_id, out_ret'.room_id]
           IN  /\ last.added
               /\ out_ret'.session.id = last.session.id
               /\ out_ret'.session.room_id = last.session.room_id
               /\ out_ret'.session.shared = last.session.shared
               /\ out_ret'.session.max_messages = last.session.max_messages
               /\ out_ret'.session.max_age = last.session.max_age
               /\ out_ret'.session.creation_time = last.session.creation_time
         ]_vars

\* C10 witness: a second add_outbound_group_session for a room, with a new
\* session_id, has replaced the row, and get_outbound_group_session has
\* returned the new session.
C10_Witness ==
    /\ out_ret.op = "get_outbound_group_session" /\ out_ret.found
    /\ out_ops = 3
    /\ out_ret.session = newest[out_ret.account_id, out_ret.room_id].session
    /\ out_ret.session.id = "g2"
    /\ Cardinality(crypto_megolm_outbound_session) = 1

UpdateStep ==
    out_ret'.op = "update_outbound_group_session" /\ out_ops' # out_ops

\* C11: an update_outbound_group_session called with a session object that
\* is not the room's current one (the room's row has another session_id
\* since a later add_outbound_group_session, or the row was removed)
\* changes no row: session_id, blob, message_count and last-used time of
\* every row stay as they were.
C11_StaleUpdateChangesNothing ==
    [][ ( /\ UpdateStep
          /\ ~ \E r \in OutboundRowsOf(crypto_megolm_outbound_session,
                                       out_ret'.account_id, out_ret'.room_id) :
                   r.session_id = out_ret'.session.id )
        => crypto_megolm_outbound_session' = crypto_megolm_outbound_session
      ]_vars

\* C11 witness: a room's session "g1" was replaced by "g2", and an
\* update_outbound_group_session with the "g1" object, which has sent a
\* message since, has completed: the row is still the one of "g2".
C11_Witness ==
    /\ out_ret.op = "update_outbound_group_session"
    /\ out_ops = 3
    /\ out_ret.session.id = "g1" /\ out_ret.session.message_count = 1
    /\ newest[out_ret.account_id, out_ret.room_id].added
    /\ newest[out_ret.account_id, out_ret.room_id].session.id = "g2"
    /\ newest[out_ret.account_id, out_ret.room_id].session.message_count = 0
    /\ OutboundRowsOf(crypto_megolm_outbound_session, out_ret.account_id,
                      out_ret.room_id)
         = {OutboundRow(out_ret.account_id,
                        newest[out_ret.account_id, out_ret.room_id].session)}

\* C12: add_outbound_group_session(s) followed by
\* get_outbound_group_session(s.room_id): while the row that the add wrote
\* is the room's row, the get returns a session whose message_count, max_age
\* and shared flag are those of s, on every backend family; on SQLITE the
\* stored max_age is the number of seconds of s.max_age, and converting it
\* back gives s.max_age.
C12_AddGetRoundTrip ==
    /\ [][ AddStep =>
           LET a == out_ret'.account_id
               s == newest'[a, out_ret'.room_id].session
           IN  \A r \in OutboundRowsOf(crypto_megolm_outbound_session', a,
                                       out_ret'.room_id) :
                   /\ r.message_count = s.message_count
                   /\ r.shared = s.shared
                   /\ IF scheme = "SQLITE"
                      THEN /\ r.max_age \in Nat
                           /\ r.max_age =
                                  s.max_age.days * 86400 + s.max_age.seconds
                      ELSE r.max_age = s.max_age
         ]_vars
    /\ [][ ( /\ GetStep
             /\ out_ret.op = "add_outbound_group_session"
             /\ out_ret'.account_id = out_ret.account_id
             /\ out_ret'.room_id = out_ret.room_id
             /\ OutboundRowsOf(crypto_megolm_outbound_session,
                               out_ret.account_id, out_ret.room_id) # {} )
           => LET s == newest[out_ret.account_id, out_ret.room_id].session
              IN  /\ out_ret'.found
                  /\ out_ret'.session.message_count = s.message_count
                  /\ out_ret'.session.max_age = s.max_age
                  /\ out_ret'.session.shared = s.shared
         ]_vars

\* C12 witness: on SQLITE a session with a max_age of one week was added,
\* stored as 604800 seconds, and the get that followed returned one week.
C12_Witness ==
    /\ scheme = "SQLITE"
    /\ out_ret.op = "get_outbound_group_session" /\ out_ret.found
    /\ out_ret.session.max_age = Week
    /\ out_ops = 2
    /\ \E r \in OutboundRowsOf(crypto_megolm_outbound_session,
                               out_ret.account_id, out_ret.room_id) :
           r.max_age = 604800

\* The columns of an outbound session row that only
\* add_outbound_group_session writes.
AddOnlyColumns(r) ==
    [account_id |-> r.account_id, room_id |-> r.room_id,
     session_id |-> r.session_id, shared |-> r.shared,
     max_messages |-> r.max_messages, max_age |-> r.max_age,
     created_at |-> r.created_at]

\* C20: update_outbound_group_session creates no row and leaves every row's
\* session_id, shared flag, max_messages, max_age and creation time as they
\* were; so a get_outbound_group_session returns the shared flag of the
\* session last added, whatever shared flag later updates were given.
C20_UpdateKeepsAddOnlyColumns ==
    /\ [][ UpdateStep =>
           /\ Cardinality(crypto_megolm_outbound_session')
                 = Cardinality(crypto_megolm_outbound_session)
           /\ {AddOnlyColumns(r) : r \in crypto_megolm_outbound_session'}
                 = {AddOnlyColumns(r) : r \in crypto_megolm_outbound_session}
         ]_vars
    /\ [][ (GetStep /\ out_ret'.found) =>
           out_ret'.session.shared =
               newest[out_ret'.account_id, out_ret'.room_id].session.shared
         ]_vars

\* C20 witness: a session was added unshared, then passed to
\* update_outbound_group_session with one message sent and the shared flag
\* set; the get that followed returned the new message_count and the old
\* shared flag.
C20_Witness ==
    /\ out_ret.op = "get_outbound_group_session" /\ out_ret.found
    /\ out_ops = 3
    /\ out_ret.session.message_count = 1
    /\ out_ret.session.shared = FALSE
    /\ newest[out_ret.account_id, out_ret.room_id].session.message_count = 0

(***************************************************************************)
(* Claims about the signature store.                                       *)
(***************************************************************************)
DropStep == sig_ret'.op = "drop_signatures_by_key" /\ sig_ops' # sig_ops

IsSignedStep == sig_ret'.op = "is_key_signed_by" /\ sig_ops' # sig_ops

\* C13: a drop_signatures_by_key(signer) whose DELETE succeeds removes the
\* edges whose signer is that (user, key) pair and no other edge; an
\* is_key_signed_by answers by the edges stored when it runs, so right after
\* the drop it is false for that signer and every target, and for another
\* signer it is what the edges from before the drop say.
C13_DropRemovesSignerOnly ==
    /\ [][ (DropStep /\ sig_ret'.outcome # "failed") =>
           crypto_cross_signing_signatures' =
               { r \in crypto_cross_signing_signatures :
                   ~( /\ r.signer_user_id = sig_ret'.signer[1]
                      /\ r.signer_key = sig_ret'.signer[2] ) }
         ]_vars
    /\ [][ (IsSignedStep /\ ~sig_ret'.raised) =>
           sig_ret'.signed =
               \E r \in crypto_cross_signing_signatures :
                   /\ r.signed_user_id = sig_ret'.target[1]
                   /\ r.signed_key = sig_ret'.target[2]
                   /\ r.signer_user_id = sig_ret'.signer[1]
                   /\ r.signer_key = sig_ret'.signer[2]
         ]_vars
    /\ [][ ( /\ IsSignedStep /\ ~sig_ret'.raised
             /\ sig_ret.op = "drop_signatures_by_key"
             /\ sig_ret.outcome # "failed"
             /\ sig_ret'.signer = sig_ret.signer )
           => ~sig_ret'.signed
         ]_vars

\* C13 witness: a target was signed by two keys of one user, the signatures
\* of one key were dropped, and is_key_signed_by for the other key is true.
C13_Witness ==
    /\ sig_ops = 4
    /\ sig_ret.op = "is_key_signed_by" /\ sig_ret.signed
    /\ sig_ret.signer = <<"@a", "K2">>
    /\ Cardinality(crypto_cross_signing_signatures) = 1

\* C14: drop_signatures_by_key never raises; when the DELETE succeeded and
\* the response carries the count it returns the number of edges removed,
\* which is 0 or more; when the DELETE failed or the response carries no
\* count it returns -1.
C14_DropThreeWayOutcome ==
    [][ DropStep =>
        /\ ~sig_ret'.raised
        /\ sig_ret'.outcome \in {"counted", "no count", "failed"}
        /\ sig_ret'.outcome = "counted" =>
              /\ sig_ret'.count =
                     Cardinality(crypto_cross_signing_signatures)
                         - Cardinality(crypto_cross_signing_signatures')
              /\ sig_ret'.count >= 0
        /\ sig_ret'.outcome # "counted" => sig_ret'.count = -1
        /\ sig_ret'.outcome = "failed" =>
              crypto_cross_signing_signatures'
                  = crypto_cross_signing_signatures
      ]_vars

\* C14 witness: a drop that removed two edges and returned 2.
C14_Witness ==
    /\ sig_ret.op = "drop_signatures_by_key"
    /\ sig_ret.outcome = "counted"
    /\ sig_ret.count = 2
    /\ scheme = "POSTGRES"

(***************************************************************************)
(* Claims about failures of the backend.                                   *)
(***************************************************************************)
KeyPutStep == key_puts' # key_puts

PutSignatureStep == sig_ret'.op = "put_signature" /\ sig_ops' # sig_ops

AddSessionStep ==
    /\ olm_ops' # olm_ops
    /\ olm_ret'.op \in {"add_session", "add_session raised"}

HasSessionStep == olm_ret'.op = "has_session" /\ olm_ops' # olm_ops

\* C16: has_session(key) has no side effect: for a key seen before or not,
\* it leaves the table of sessions and the session cache, with its set of
\* keys and the sessions under each key, exactly as they were.
C16_HasSessionNoSideEffect ==
    [][ HasSessionStep =>
        /\ crypto_olm_session' = crypto_olm_session
        /\ DOMAIN olm_cache' = DOMAIN olm_cache
        /\ olm_cache' = olm_cache
      ]_vars

GetSessionsStep == olm_ret'.op = "get_sessions" /\ olm_ops' # olm_ops

\* C17: get_sessions(key) returns one session per row of this account and
\* key, in an order of the rows in which last_decrypted never increases;
\* for a row whose session_id the cache holds under the key it is the cached
\* session, otherwise it is the row unpickled; afterwards the cache holds
\* each returned session under (key, session_id); the table is unchanged.
C17_GetSessionsOrderedAndCached ==
    [][ GetSessionsStep =>
        LET key == olm_ret'.key
            rows == {r \in crypto_olm_session :
                        r.sender_key = key /\ r.account_id = AccountID}
            sessions == olm_ret'.sessions
            cached == IF key \in DOMAIN olm_cache
                      THEN DOMAIN olm_cache[key] ELSE {}
        IN  /\ crypto_olm_session' = crypto_olm_session
            /\ Len(sessions) = Cardinality(rows)
            /\ \E q \in [1..Len(sessions) -> rows] :
                  /\ \A i, j \in DOMAIN q : i # j => q[i] # q[j]
                  /\ \A i, j \in DOMAIN q :
                        i < j => q[i].last_decrypted >= q[j].last_decrypted
                  /\ \A i \in DOMAIN q :
                        /\ sessions[i] =
                              IF q[i].session_id \in cached
                              THEN olm_cache[key][q[i].session_id]
                              ELSE [id |-> q[i].session.id,
                                    state |-> q[i].session.state,
                                    creation_time |-> q[i].created_at,
                                    last_encrypted |-> q[i].last_encrypted,
                                    last_decrypted |-> q[i].last_decrypted]
                        /\ key \in DOMAIN olm_cache'
                        /\ q[i].session_id \in DOMAIN olm_cache'[key]
                        /\ olm_cache'[key][q[i].session_id] = sessions[i]
      ]_vars

\* C17 witness: get_sessions returned the sessions of two rows, the one
\* that decrypted last first, and the cache holds both under the key.
C17_Witness ==
    /\ olm_ret.op = "get_sessions"
    /\ olm_ops = 4
    /\ Len(olm_ret.sessions) = 2
    /\ olm_ret.sessions[1].last_decrypted = 1
    /\ olm_ret.sessions[2].last_decrypted = 0
    /\ DOMAIN olm_cache = {olm_ret.key}
    /\ \A i \in 1..2 :
          \E r \in crypto_olm_session :
              /\ r.session_id = olm_ret.sessions[i].id
              /\ r.sender_key = olm_ret.key
              /\ olm_cache[olm_ret.key][r.session_id] = olm_ret.sessions[i]

UpdateSessionStep == olm_ret'.op = "update_session" /\ olm_ops' # olm_ops

\* C19: an update_session(key, session) whose statement succeeds writes
\* through whatever the cache holds: afterwards every row of session.id in
\* this account holds session's blob, last_encrypted and last_decrypted; and
\* the get_sessions(key) that follows returns for that session_id a session
\* whose state is the one just written.
C19_UpdateWritesThrough ==
    /\ [][ UpdateSessionStep =>
           LET session == olm_ret'.sessions[1]
           IN  \A r \in crypto_olm_session' :
                  (r.session_id = session.id /\ r.account_id = AccountID) =>
                      /\ r.session.id = session.id
                      /\ r.session.state = session.state
                      /\ r.last_encrypted = session.last_encrypted
                      /\ r.last_decrypted = session.last_decrypted
         ]_vars
    /\ [][ ( /\ GetSessionsStep
             /\ olm_ret.op = "update_session"
             /\ olm_ret'.key = olm_ret.key )
           => \A i \in DOMAIN olm_ret'.sessions :
                 olm_ret'.sessions[i].id = olm_ret.sessions[1].id =>
                     olm_ret'.sessions[i].state = olm_ret.sessions[1].state
         ]_vars

(***************************************************************************)
(* Claims about delete().                                                  *)
(***************************************************************************)
OwnRows(table) == {r \in table : r.account_id = AccountID}

OtherRows(table) == {r \in table : r.account_id # AccountID}

DeleteReturns == del.pc = "begun" /\ del'.pc = "done"

DeleteRaises == del.pc = "begun" /\ del'.pc = "failed"

\* C18: delete() is all-or-nothing and scoped to its account: in every state
\* while it runs the three tables are as they were when it was called; when
\* it returns, none of the three has a row of this account_id and the rows
\* of other account_ids are those from before; when it fails or is cancelled
\* the three tables are as before.
C18_DeleteAllOrNothing ==
    /\ [](DeleteRunning => DeleteDb = del.before)
    /\ [][ DeleteReturns =>
           /\ OwnRows(crypto_account') = {}
           /\ OwnRows(crypto_olm_session') = {}
           /\ OwnRows(crypto_megolm_outbound_session') = {}
           /\ OtherRows(crypto_account')
                 = OtherRows(del.before.crypto_account)
           /\ OtherRows(crypto_olm_session')
                 = OtherRows(del.before.crypto_olm_session)
           /\ OtherRows(crypto_megolm_outbound_session')
                 = OtherRows(del.before.crypto_megolm_outbound_session)
         ]_vars
    /\ [][ DeleteRaises =>
           /\ crypto_account' = del.before.crypto_account
           /\ crypto_olm_session' = del.before.crypto_olm_session
           /\ crypto_megolm_outbound_session'
                 = del.before.crypto_megolm_outbound_session
         ]_vars

\* C18 witness: both accounts had a row in each of the three tables, and a
\* delete() of the first account has returned: the rows of the second are
\* all that is left.
C18_Witness ==
    /\ del.pc = "done"
    /\ \A t \in {"crypto_account", "crypto_olm_session",
                 "crypto_megolm_outbound_session"} :
          /\ OwnRows(del.before[t]) # {}
          /\ OtherRows(del.before[t]) # {}
          /\ DeleteDb[t] = OtherRows(del.before[t])

(***************************************************************************)
(* Claims about removing outbound group sessions.                          *)
(***************************************************************************)
RemoveOneStep ==
    out_ret'.op = "remove_outbound_group_session" /\ out_ops' # out_ops

RemoveManyStep ==
    out_ret'.op = "remove_outbound_group_sessions" /\ out_ops' # out_ops

\* What is left of a table when the account's row of one room is removed.
WithoutRoom(table, account_id, room_id) ==
    {r \in table : ~(r.account_id = account_id /\ r.room_id = room_id)}

\* What is left when that is done for each room of a list in turn.
RECURSIVE WithoutEachRoom(_, _, _)
WithoutEachRoom(table, account_id, rooms) ==
    IF rooms = <<>> THEN table
    ELSE WithoutEachRoom(WithoutRoom(table, account_id, Head(rooms)),
                         account_id, Tail(rooms))

\* C21: remove_outbound_group_sessions(rooms) removes the rows of its
\* account whose room_id is in rooms and no other row, on the backends with
\* an array parameter and on the one with an expanded IN list, for the empty
\* list and for lists with a room twice as well; that is what
\* remove_outbound_group_session, which removes its account's row of one
\* room, leaves when it is called for each room of the list.
C21_BatchRemoveIsEachRoomRemoved ==
    /\ [][ RemoveManyStep =>
           LET a == out_ret'.account_id
               rooms == out_ret'.rooms
           IN  /\ crypto_megolm_outbound_session' =
                     { r \in crypto_megolm_outbound_session :
                         ~( /\ r.account_id = a
                            /\ \E i \in DOMAIN rooms : rooms[i] = r.room_id ) }
               /\ crypto_megolm_outbound_session' =
                     WithoutEachRoom(crypto_megolm_outbound_session, a, rooms)
         ]_vars
    /\ [][ RemoveOneStep =>
           crypto_megolm_outbound_session' =
               WithoutRoom(crypto_megolm_outbound_session,
                           out_ret'.account_id, out_ret'.room_id)
         ]_vars

\* C21 witness: on SQLITE both accounts had a session for a room, and the
\* first account's remove_outbound_group_sessions, with that room second in
\* its list, has left the row of the other account only.
C21_Witness ==
    /\ scheme = "SQLITE"
    /\ out_ret.op = "remove_outbound_group_sessions"
    /\ out_ops = 3
    /\ Len(out_ret.rooms) = 2
    /\ out_ret.rooms[1] # out_ret.rooms[2]
    /\ \E r \in crypto_megolm_outbound_session :
          /\ crypto_megolm_outbound_session = {r}
          /\ r.account_id # out_ret.account_id
          /\ r.room_id = out_ret.rooms[2]
    /\ newest[out_ret.account_id, out_ret.rooms[2]].added

(***************************************************************************)
(* Claims about concurrent validations on the non-atomic path.             *)
(***************************************************************************)

\* C22: on the non-atomic path no two calls for one (sender_key, session_id,
\* index) with different (event_id, timestamp) both return true, under any
\* interleaving of their statements: the insert of a call whose key already
\* has a record raises the backend's error to the caller and changes no row,
\* so the record keeps the values of the first inserter.
C22_RaceLoserRaises ==
    /\ [](~AtomicScheme =>
            \A c, d \in CallIds :
                ( /\ c # d
                  /\ vmi[c].pc = "returned" /\ vmi[d].pc = "returned"
                  /\ SameIndexKey(vmi[c], vmi[d]) /\ ~SamePair(vmi[c], vmi[d]) )
                => ~(vmi[c].result /\ vmi[d].result))
    /\ [][\A c \in CallIds :
            ( /\ ValidateInsert(c)
              /\ ExistingIndexRows(crypto_message_index, SubmittedRow(c)) # {} )
            => /\ vmi'[c].pc = "raised"
               /\ ~vmi'[c].result
               /\ crypto_message_index' = crypto_message_index]_vars

\* C22 witness: two calls for one key with different pairs both found no row;
\* the one that inserted first returned true and its values are the record,
\* the other one's insert raised.
C22_Witness ==
    /\ ~AtomicScheme
    /\ \E c, d \in CallIds :
          /\ c # d
          /\ SameIndexKey(vmi[c], vmi[d]) /\ ~SamePair(vmi[c], vmi[d])
          /\ vmi[c].pc = "returned" /\ vmi[c].result
          /\ vmi[d].pc = "raised"
          /\ ExistingIndexRows(crypto_message_index, SubmittedRow(d))
                = {SubmittedRow(c)}

(***************************************************************************)
(* Claims about has_session and get_latest_session.                        *)
(***************************************************************************)
\* What has_session(key) returns in the current state.
HasSessionResult(key) ==
    \/ DOMAIN CacheTouch(olm_cache, key)[key] # {}
    \/ OlmRowsOf(crypto_olm_session, key) # {}

\* Whether get_latest_session(key) returns a session in the current state.
GetLatestSessionResult(key) == OlmRowsOf(crypto_olm_session, key) # {}

\* C23: in every state reached by completed store operations, delete() and
\* an add_session that raised included, has_session(key) returns true
\* exactly if get_latest_session(key) returns a session and not None.
C23_HasSessionAgreesWithLatest ==
    \A key \in IdentityKeys :
        HasSessionResult(key) <=> GetLatestSessionResult(key)

(***************************************************************************)
(* Claims about the sync token in the account row.                         *)
(***************************************************************************)
\* C24: put_account never moves the stored sync token backwards or blanks
\* it: after a put_account by a store of an account, possibly a store
\* constructed anew that has not called get_next_batch, the sync_token of
\* the account's row is the token of the latest put_next_batch that reached
\* the row.
C24_PutAccountKeepsSyncToken ==
    [][ \A a \in AccountIDs, account \in OlmAccounts :
          ( PutAccountOf(a, account) /\ reached[a] # "None" )
          => \A r \in crypto_account' :
                r.account_id = a => r.sync_token = reached[a]
      ]_vars

=============================================================================
